---- MODULE Spec2Model ----
(***************************************************************************)
(* Dynamic linking between WASM module instances (libwasmvm,               *)
(* src/libwasmvm/src/dynamic_link.rs): the two extern entry points         *)
(* call_callable_point and validate_interface, modelled step by step.      *)
(*                                                                         *)
(* Spec   : one call of call_callable_point, from the extern entry to the  *)
(*          returned payload.                                              *)
(* SpecVI : calls of validate_interface against a module cache.            *)
(***************************************************************************)
EXTENDS Integers, Sequences, FiniteSets, TLC

VARIABLES
    pc,           \* position inside call_callable_point
    req,          \* the arguments of the current call_callable_point call
    cache,        \* module cache: checksum -> exported functions of the module
    instance,     \* the callee instance obtained from cache.get_instance
    gas_used,     \* caller's gas_used slot (Unwritten until assigned)
    events,       \* caller's events slot
    attributes,   \* caller's attributes slot
    error_msg,    \* caller's error_msg slot
    arg_ptrs,     \* Vec<WasmerVal> built by "prepare inputs"
    arg_i,        \* position of the `for arg in &args` iterator
    results,      \* the values call_function returned
    call_params,  \* the parameter list the engine received in call_function
    result_datas, \* Vec<Vec<u8>> read back by read_region_vals_from_env
    call_result,  \* the value bound by `let call_result = ...?`
    r,            \* Result<Option<Binary>, Error> held by call_callable_point
    ret,          \* the UnmanagedVector returned by call_callable_point
    ops,          \* operations performed on the callee instance, in order
    vpc,          \* position inside validate_interface
    vreq,         \* the arguments of the current validate_interface call
    vr,           \* Result<Option<String>, Error> held by validate_interface
    vret,         \* the UnmanagedVector returned by validate_interface
    verror_msg,   \* caller's error_msg slot of validate_interface
    prev          \* the previous completed validate_interface call

callVars == <<pc, req, instance, gas_used, events, attributes, error_msg,
              arg_ptrs, arg_i, call_params, results, result_datas, call_result, r, ret, ops>>
viVars == <<vpc, vreq, vr, vret, verror_msg, prev>>
vars == <<callVars, viVars, cache>>

(***************************************************************************)
(* Bounds of the model                                                     *)
(***************************************************************************)
MaxArgs == 2        \* longest argument list
MaxResults == 2     \* most values a callee returns
MaxGuestGas == 2    \* most gas one guest execution consumes
MaxExpected == 2    \* longest expected interface
MaxExports == 2     \* most exported functions of a module

(***************************************************************************)
(* Program constants                                                       *)
(***************************************************************************)
MI == 1024 * 1024

MAX_REGIONS_LENGTH_OUTPUT_Short == 32 * MI

MAX_REGIONS_LENGTH_OUTPUT == 64 * MI

(***************************************************************************)
(* Values crossing the boundary                                            *)
(***************************************************************************)
Unwritten == [st |-> "unwritten"]
Written(v) == [st |-> "written", val |-> v]
IsWritten(slot) == slot.st = "written"

\* A byte string, run-length coded: n bytes of value b.
Bytes(b, n) == [b |-> b, n |-> n]

\* A ByteSliceView: null pointer, malformed content, or well-formed content.
NullView(dflt) == [st |-> "null", val |-> dflt]
BadView(dflt) == [st |-> "bad", val |-> dflt]
OkView(v) == [st |-> "ok", val |-> v]

RECURSIVE SeqsUpTo(_, _)
SeqsUpTo(S, n) ==
    IF n = 0 THEN {<<>>}
    ELSE LET shorter == SeqsUpTo(S, n - 1)
         IN shorter \cup {Append(s, x) : s \in {t \in shorter : Len(t) = n - 1}, x \in S}

ArgValues == {Bytes(1, 1), Bytes(2, 2)}
EnvValue == Bytes(5, 3)
FnNames == {"f", "g"}

FunctionType(ps, rs) == [params |-> ps, results |-> rs]
FnTypes == {FunctionType(<<"I32", "I32">>, <<"I32">>),
            FunctionType(<<"I32", "I32">>, <<"I64">>),
            FunctionType(<<"I32", "I64">>, <<"I32">>),
            FunctionType(<<"I64", "I32">>, <<"I32">>)}
ExportType(n, t) == [name |-> n, ty |-> t]
ExportTypes == {ExportType(n, t) : n \in FnNames, t \in FnTypes}

\* A module's export section: names are unique (WASM validation).
Modules ==
    {m \in SeqsUpTo(ExportTypes, MaxExports) :
        \A i, j \in 1..Len(m) : m[i].name = m[j].name => i = j}

DefaultCache == [c \in {"cs1"} |-> <<ExportType("f", FunctionType(<<"I32", "I32">>, <<"I32">>))>>]

None == [some |-> FALSE, val |-> <<>>]
Some(v) == [some |-> TRUE, val |-> <<v>>]
Ok(v) == [ok |-> TRUE, val |-> v, err |-> [ctor |-> "", arg |-> ""]]
Err(e) == [ok |-> FALSE, val |-> None, err |-> e]
Error(ctor, arg) == [ctor |-> ctor, arg |-> arg]

\* serde_json::to_vec: the value wrapped in its JSON text.
to_vec(v) == [json |-> v]

NoRequest ==
    [name |-> NullView(""), cache |-> FALSE, checksum |-> NullView(""),
     is_readonly |-> FALSE, callstack |-> NullView(<<>>), env |-> NullView(Bytes(0, 0)),
     args |-> NullView(<<>>), gas_used |-> FALSE, events |-> FALSE,
     attributes |-> FALSE, error_msg |-> FALSE]

Requests ==
    [name : {NullView(""), BadView(""), OkView("f")},
     cache : BOOLEAN,
     checksum : {NullView(""), BadView(""), OkView("cs0"), OkView("cs1")},
     is_readonly : BOOLEAN,
     callstack : {NullView(<<>>), BadView(<<>>), OkView(<<"caller">>)},
     env : {NullView(Bytes(0, 0)), OkView(EnvValue)},
     args : {NullView(<<>>), BadView(<<>>)} \cup {OkView(a) : a \in SeqsUpTo(ArgValues, MaxArgs)},
     gas_used : BOOLEAN,
     events : BOOLEAN,
     attributes : BOOLEAN,
     error_msg : BOOLEAN]

NoInstance ==
    [created |-> FALSE, held |-> FALSE, made |-> 0, gas |-> 0, env |-> Bytes(0, 0),
     callstack |-> <<>>, readonly |-> FALSE, memory |-> <<>>,
     events |-> <<>>, attributes |-> <<>>]

\* Data a guest may leave in its memory as a returned region.
GuestData == {Bytes(9, 1), Bytes(9, 33554432), Bytes(9, 67108864), Bytes(9, 67108865)}

\* What a guest execution may record: nothing, or one event and one attribute.
GuestRecords == {[events |-> <<>>, attributes |-> <<>>],
                 [events |-> <<"ev1">>, attributes |-> <<"at1">>]}

\* How a call into the engine may end.
Outcomes == {"ok", "err", "panic"}

(***************************************************************************)
(* Initial state: no call in progress.                                     *)
(***************************************************************************)
InitCall ==
    /\ pc = "idle"
    /\ req = NoRequest
    /\ instance = NoInstance
    /\ gas_used = Unwritten
    /\ events = Unwritten
    /\ attributes = Unwritten
    /\ error_msg = Unwritten
    /\ arg_ptrs = <<>>
    /\ arg_i = 0
    /\ call_params = <<>>
    /\ results = <<>>
    /\ result_datas = <<>>
    /\ call_result = None
    /\ r = Ok(None)
    /\ ret = Unwritten
    /\ ops = <<>>

NoVIRequest == [cache |-> FALSE, checksum |-> NullView(""), expected_interface |-> NullView(<<>>),
                error_msg |-> FALSE]

InitVI ==
    /\ vpc = "idle"
    /\ vreq = NoVIRequest
    /\ vr = Ok(None)
    /\ vret = Unwritten
    /\ verror_msg = Unwritten
    /\ prev = <<>>

Init ==
    /\ InitCall
    /\ InitVI
    /\ cache = DefaultCache

(***************************************************************************)
(* call_callable_point                                                     *)
(***************************************************************************)

\* An error after which the failing step is entered again.
Fail_Retry(e) ==
    /\ r' = Err(e)
    /\ pc' = pc
    /\ instance' = instance

\* An error return that keeps the instance alive.
Fail_KeepInstance(e) ==
    /\ r' = Err(e)
    /\ pc' = "boundary"
    /\ instance' = instance

\* Leaving do_call_callable_point with Err(e): the instance, a local, is dropped.
Fail(e) ==
    /\ r' = Err(e)
    /\ pc' = "boundary"
    /\ instance' = [instance EXCEPT !.held = FALSE]

\* A panic that is not caught: the unwinding leaves the extern function.
Panic_Unwind ==
    /\ r' = r
    /\ pc' = "unwinding"
    /\ instance' = [instance EXCEPT !.held = FALSE]

\* A panic unwinds to catch_unwind, which yields Err(Error::panic()).
Panic == Fail(Error("panic", ""))

\* A gas report that does not read the instance.
used_internally_Default(inst) == 0

\* instance.create_gas_report().used_internally
used_internally(inst) == inst.gas

\* Extern entry: to_cache(cache) decides whether do_call_callable_point runs.
call_callable_point ==
    /\ pc = "idle"
    /\ \E q \in Requests :
        /\ req' = q
        /\ IF q.cache
           THEN /\ pc' = "decode"
                /\ r' = r
           ELSE /\ pc' = "boundary"
                /\ r' = Err(Error("unset_arg", "CACHE_ARG"))
    /\ UNCHANGED <<instance, gas_used, events, attributes, error_msg, arg_ptrs, arg_i,
                   call_params, results, result_datas, call_result, ret, ops>>
    /\ UNCHANGED <<viVars, cache>>

\* The envelope checks with the gas_used slot looked at last.
DecodeError_GasLast(q) ==
    IF q.name.st = "null" THEN <<Error("unset_arg", "name")>>
    ELSE IF q.name.st = "bad" THEN <<Error("serde_err", "name")>>
    ELSE IF q.args.st = "null" THEN <<Error("unset_arg", "args")>>
    ELSE IF q.args.st = "bad" THEN <<Error("serde_err", "args")>>
    ELSE IF q.checksum.st = "null" THEN <<Error("unset_arg", "CHECKSUM_ARG")>>
    ELSE IF q.checksum.st = "bad" THEN <<Error("try_into", "checksum")>>
    ELSE IF q.callstack.st = "null" THEN <<Error("unset_arg", "callstack")>>
    ELSE IF q.callstack.st = "bad" THEN <<Error("serde_err", "callstack")>>
    ELSE IF q.env.st = "null" THEN <<Error("unset_arg", "env")>>
    ELSE IF ~q.gas_used THEN <<Error("empty_arg", "GAS_USED_ARG")>>
    ELSE <<>>

\* The envelope checks without the check of env.
DecodeError_SkipEnv(q) ==
    IF q.name.st = "null" THEN <<Error("unset_arg", "name")>>
    ELSE IF q.name.st = "bad" THEN <<Error("serde_err", "name")>>
    ELSE IF q.args.st = "null" THEN <<Error("unset_arg", "args")>>
    ELSE IF q.args.st = "bad" THEN <<Error("serde_err", "args")>>
    ELSE IF ~q.gas_used THEN <<Error("empty_arg", "GAS_USED_ARG")>>
    ELSE IF q.checksum.st = "null" THEN <<Error("unset_arg", "CHECKSUM_ARG")>>
    ELSE IF q.checksum.st = "bad" THEN <<Error("try_into", "checksum")>>
    ELSE IF q.callstack.st = "null" THEN <<Error("unset_arg", "callstack")>>
    ELSE IF q.callstack.st = "bad" THEN <<Error("serde_err", "callstack")>>
    ELSE <<>>

\* The envelope checks with the events and attributes slots of a call that is
\* not read-only checked along with the gas_used slot.
DecodeError_SlotsEarly(q) ==
    IF q.name.st = "null" THEN <<Error("unset_arg", "name")>>
    ELSE IF q.name.st = "bad" THEN <<Error("serde_err", "name")>>
    ELSE IF q.args.st = "null" THEN <<Error("unset_arg", "args")>>
    ELSE IF q.args.st = "bad" THEN <<Error("serde_err", "args")>>
    ELSE IF ~q.gas_used THEN <<Error("empty_arg", "GAS_USED_ARG")>>
    ELSE IF ~q.is_readonly /\ ~q.events THEN <<Error("empty_arg", "events")>>
    ELSE IF ~q.is_readonly /\ ~q.attributes THEN <<Error("empty_arg", "attributes")>>
    ELSE IF q.checksum.st = "null" THEN <<Error("unset_arg", "CHECKSUM_ARG")>>
    ELSE IF q.checksum.st = "bad" THEN <<Error("try_into", "checksum")>>
    ELSE IF q.callstack.st = "null" THEN <<Error("unset_arg", "callstack")>>
    ELSE IF q.callstack.st = "bad" THEN <<Error("serde_err", "callstack")>>
    ELSE IF q.env.st = "null" THEN <<Error("unset_arg", "env")>>
    ELSE <<>>

\* The first error of the envelope checks, in the order the code makes them;
\* <<>> when every field is present and decodes.
DecodeError(q) ==
    IF q.name.st = "null" THEN <<Error("unset_arg", "name")>>
    ELSE IF q.name.st = "bad" THEN <<Error("serde_err", "name")>>
    ELSE IF q.args.st = "null" THEN <<Error("unset_arg", "args")>>
    ELSE IF q.args.st = "bad" THEN <<Error("serde_err", "args")>>
    ELSE IF ~q.gas_used THEN <<Error("empty_arg", "GAS_USED_ARG")>>
    ELSE IF q.checksum.st = "null" THEN <<Error("unset_arg", "CHECKSUM_ARG")>>
    ELSE IF q.checksum.st = "bad" THEN <<Error("try_into", "checksum")>>
    ELSE IF q.callstack.st = "null" THEN <<Error("unset_arg", "callstack")>>
    ELSE IF q.callstack.st = "bad" THEN <<Error("serde_err", "callstack")>>
    ELSE IF q.env.st = "null" THEN <<Error("unset_arg", "env")>>
    ELSE <<>>

decode_envelope ==
    /\ pc = "decode"
    /\ LET e == DecodeError(req)
       IN IF e = <<>>
          THEN /\ pc' = "get_instance"
               /\ UNCHANGED <<r, instance>>
          ELSE Fail(e[1])
    /\ UNCHANGED <<req, gas_used, events, attributes, error_msg, arg_ptrs, arg_i,
                   call_params, results, result_datas, call_result, ret, ops>>
    /\ UNCHANGED <<viVars, cache>>

\* cache.get_instance(&checksum, backend, options)?
get_instance ==
    /\ pc = "get_instance"
    /\ \E o \in Outcomes, g \in 0..1 :
        IF o = "ok" /\ req.checksum.val \in DOMAIN cache
        THEN /\ instance' = [NoInstance EXCEPT !.created = TRUE, !.held = TRUE,
                                                !.made = instance.made + 1, !.gas = g]
             /\ pc' = "install"
             /\ r' = r
        ELSE /\ g = 0
             /\ IF o = "panic" THEN Panic ELSE Fail(Error("vm_err", "get_instance"))
    /\ UNCHANGED <<req, gas_used, events, attributes, error_msg, arg_ptrs, arg_i,
                   call_params, results, result_datas, call_result, ret, ops>>
    /\ UNCHANGED <<viVars, cache>>

\* The installation followed at once by "prepare inputs", set_callee_permission
\* left for later.
install_env_callstack_SkipPermission ==
    /\ pc = "install"
    /\ ops' = ops \o <<"set_serialized_env", "set_dynamic_callstack">>
    /\ \E o \in Outcomes :
        CASE o = "ok" ->
                /\ instance' = [instance EXCEPT !.env = req.env.val,
                                                !.callstack = req.callstack.val]
                /\ pc' = "write_env"
                /\ r' = r
          [] o = "err" -> Fail(Error("vm_err", "set_dynamic_callstack"))
          [] o = "panic" -> Panic
    /\ UNCHANGED <<req, gas_used, events, attributes, error_msg, arg_ptrs, arg_i,
                   call_params, results, result_datas, call_result, ret>>
    /\ UNCHANGED <<viVars, cache>>

\* instance.env.set_serialized_env(env_u8); instance.env.set_dynamic_callstack(callstack)?
install_env_callstack ==
    /\ pc = "install"
    /\ ops' = ops \o <<"set_serialized_env", "set_dynamic_callstack">>
    /\ \E o \in Outcomes :
        CASE o = "ok" ->
                /\ instance' = [instance EXCEPT !.env = req.env.val,
                                                !.callstack = req.callstack.val]
                /\ pc' = "permission"
                /\ r' = r
          [] o = "err" -> Fail(Error("vm_err", "set_dynamic_callstack"))
          [] o = "panic" -> Panic
    /\ UNCHANGED <<req, gas_used, events, attributes, error_msg, arg_ptrs, arg_i,
                   call_params, results, result_datas, call_result, ret>>
    /\ UNCHANGED <<viVars, cache>>

\* match set_callee_permission(&mut instance, &name, is_readonly) { ... }
set_permission ==
    /\ pc = "permission"
    /\ \E o \in Outcomes :
        CASE o = "ok" ->
                /\ ops' = Append(ops, "set_callee_permission")
                /\ instance' = [instance EXCEPT !.readonly = req.is_readonly]
                /\ pc' = "write_env"
                /\ UNCHANGED <<r, gas_used>>
          [] o = "err" ->
                /\ ops' = ops \o <<"set_callee_permission", "create_gas_report">>
                /\ gas_used' = Written(used_internally(instance))
                /\ Fail(Error("vm_err", "set_callee_permission"))
          [] o = "panic" ->
                /\ ops' = Append(ops, "set_callee_permission")
                /\ Panic
                /\ UNCHANGED gas_used
    /\ UNCHANGED <<req, events, attributes, error_msg, arg_ptrs, arg_i,
                   call_params, results, result_datas, call_result, ret>>
    /\ UNCHANGED <<viVars, cache>>

\* arg_ptrs.push(ptr), and a push at the wrong end.
push_front(vec, x) == <<x>> \o vec

push(vec, x) == Append(vec, x)

\* write_value_to_env: the value is copied into a fresh region of the callee's
\* memory; the region's address is returned.
write_value_to_env(inst, value) ==
    [memory |-> Append(inst.memory, value), ptr |-> Len(inst.memory) + 1]

\* let env_ptr = write_value_to_env(&instance.env, env_u8)?; arg_ptrs.push(env_ptr);
write_env ==
    /\ pc = "write_env"
    /\ ops' = Append(ops, "write_value_to_env")
    /\ \E o \in Outcomes :
        CASE o = "ok" ->
                LET w == write_value_to_env(instance, req.env.val)
                IN /\ instance' = [instance EXCEPT !.memory = w.memory]
                   /\ arg_ptrs' = push(arg_ptrs, w.ptr)
                   /\ arg_i' = 0
                   /\ pc' = IF Len(req.args.val) = 0 THEN "call" ELSE "write_args"
                   /\ r' = r
          [] o = "err" ->
                /\ Fail(Error("vm_err", "write_value_to_env"))
                /\ UNCHANGED <<arg_ptrs, arg_i>>
          [] o = "panic" ->
                /\ Panic
                /\ UNCHANGED <<arg_ptrs, arg_i>>
    /\ UNCHANGED <<req, gas_used, events, attributes, error_msg,
                   call_params, results, result_datas, call_result, ret>>
    /\ UNCHANGED <<viVars, cache>>

\* One iteration of: for arg in &args { let ptr = write_value_to_env(..)?; arg_ptrs.push(ptr); }
write_arg ==
    /\ pc = "write_args"
    /\ ops' = Append(ops, "write_value_to_env")
    /\ \E o \in Outcomes :
        CASE o = "ok" ->
                LET w == write_value_to_env(instance, req.args.val[arg_i + 1])
                IN /\ instance' = [instance EXCEPT !.memory = w.memory]
                   /\ arg_ptrs' = push(arg_ptrs, w.ptr)
                   /\ arg_i' = arg_i + 1
                   /\ pc' = IF arg_i + 1 = Len(req.args.val) THEN "call" ELSE "write_args"
                   /\ r' = r
          [] o = "err" ->
                /\ Fail(Error("vm_err", "write_value_to_env"))
                /\ UNCHANGED <<arg_ptrs, arg_i>>
          [] o = "panic" ->
                /\ Panic
                /\ UNCHANGED <<arg_ptrs, arg_i>>
    /\ UNCHANGED <<req, gas_used, events, attributes, error_msg,
                   call_params, results, result_datas, call_result, ret>>
    /\ UNCHANGED <<viVars, cache>>

\* The guest runs: it consumes gas, leaves the regions it returns in its memory
\* and records events and attributes.
GuestRun(inst, g, out, rec) ==
    [inst EXCEPT !.gas = inst.gas + g,
                 !.memory = inst.memory \o out,
                 !.events = rec.events,
                 !.attributes = rec.attributes]

\* instance.call_function(&name, &arg_ptrs), and the Err arm of the match.
call_function ==
    /\ pc = "call"
    /\ ops' = Append(ops, "call_function")
    /\ call_params' = arg_ptrs
    /\ \E o \in Outcomes, g \in 0..MaxGuestGas :
        CASE o = "ok" ->
                \E out \in SeqsUpTo(GuestData, MaxResults), rec \in GuestRecords :
                    /\ instance' = GuestRun(instance, g, out, rec)
                    /\ results' = [k \in 1..Len(out) |-> Len(instance.memory) + k]
                    /\ pc' = "read_results"
                    /\ r' = r
          [] o = "err" ->
                /\ r' = Err(Error("dynamic_link_err", "Error during calling callable point"))
                /\ pc' = "boundary"
                /\ instance' = [instance EXCEPT !.gas = instance.gas + g, !.held = FALSE]
                /\ UNCHANGED results
          [] o = "panic" ->
                /\ r' = Err(Error("panic", ""))
                /\ pc' = "boundary"
                /\ instance' = [instance EXCEPT !.gas = instance.gas + g, !.held = FALSE]
                /\ UNCHANGED results
    /\ UNCHANGED <<req, gas_used, events, attributes, error_msg, arg_ptrs, arg_i,
                   result_datas, call_result, ret>>
    /\ UNCHANGED <<viVars, cache>>

RECURSIVE TotalLength(_)
TotalLength(datas) ==
    IF datas = <<>> THEN 0 ELSE Head(datas).n + TotalLength(Tail(datas))

\* read_region_vals_from_env(&instance.env, &results, limit, true): the regions
\* the values point to, unless their combined length exceeds the limit.
read_region_vals_from_env(inst, ptrs, limit) ==
    LET datas == [k \in 1..Len(ptrs) |-> inst.memory[ptrs[k]]]
    IN IF TotalLength(datas) > limit
       THEN [ok |-> FALSE, datas |-> <<>>]
       ELSE [ok |-> TRUE, datas |-> datas]

\* Binary(result_datas[0].clone())
Binary(data) == [binary |-> data]

\* The match with the `_` arm taking the first value.
MatchResultLen_First(datas) ==
    IF Len(datas) = 0 THEN Ok(None) ELSE Ok(Some(Binary(datas[1])))

\* match result_datas.len() { 0 => .., 1 => .., _ => .. }
MatchResultLen(datas) ==
    IF Len(datas) = 0 THEN Ok(None)
    ELSE IF Len(datas) = 1 THEN Ok(Some(Binary(datas[1])))
    ELSE Err(Error("dynamic_link_err", "unexpected more than 1 returning values"))

\* The Ok arm of the match on call_function's result, and the `?` after it.
read_results ==
    /\ pc = "read_results"
    /\ ops' = Append(ops, "read_region_vals_from_env")
    /\ \/ /\ Panic
          /\ UNCHANGED <<result_datas, call_result>>
       \/ LET rd == read_region_vals_from_env(instance, results, MAX_REGIONS_LENGTH_OUTPUT)
          IN IF ~rd.ok
             THEN /\ Fail(Error("vm_err", "read_region_vals_from_env"))
                  /\ UNCHANGED <<result_datas, call_result>>
             ELSE /\ result_datas' = rd.datas
                  /\ LET m == MatchResultLen(rd.datas)
                     IN IF m.ok
                        THEN /\ call_result' = m.val
                             /\ pc' = "events"
                             /\ UNCHANGED <<r, instance>>
                        ELSE /\ Fail(m.err)
                             /\ UNCHANGED call_result
    /\ UNCHANGED <<req, gas_used, events, attributes, error_msg, arg_ptrs, arg_i,
                   call_params, results, ret>>
    /\ UNCHANGED <<viVars, cache>>

\* The test `if !is_readonly`, and the test left out.
CollectsRecords_Always(q) == TRUE

CollectsRecords(q) == ~q.is_readonly

\* The slots with the events slot assigned as soon as the events serialized.
SlotsAfter_EventsFirst(o, inst, ev, at) ==
    IF o = "ok"
    THEN [events |-> Written(to_vec(inst.events)), attributes |-> Written(to_vec(inst.attributes))]
    ELSE IF o = "invalid_attributes"
    THEN [events |-> Written(to_vec(inst.events)), attributes |-> at]
    ELSE [events |-> ev, attributes |-> at]

\* The slots with the attributes serialized and assigned before the events.
SlotsAfter_AttributesFirst(o, inst, ev, at) ==
    IF o = "ok"
    THEN [events |-> Written(to_vec(inst.events)), attributes |-> Written(to_vec(inst.attributes))]
    ELSE IF o = "invalid_events"
    THEN [events |-> ev, attributes |-> Written(to_vec(inst.attributes))]
    ELSE [events |-> ev, attributes |-> at]

\* The caller's slots after the two to_vec calls ended as o says: both are
\* assigned once both serializations succeeded, neither otherwise.
SlotsAfter(o, inst, ev, at) ==
    IF o = "ok"
    THEN [events |-> Written(to_vec(inst.events)), attributes |-> Written(to_vec(inst.attributes))]
    ELSE [events |-> ev, attributes |-> at]

\* if !is_readonly { ... }: the events and attributes of the instance are
\* serialized and stored into the caller's slots.
collect_events ==
    /\ pc = "events"
    /\ IF CollectsRecords(req)
       THEN IF ~req.events
            THEN /\ Fail(Error("empty_arg", "events"))
                 /\ UNCHANGED <<events, attributes, ops>>
            ELSE IF ~req.attributes
            THEN /\ Fail(Error("empty_arg", "attributes"))
                 /\ UNCHANGED <<events, attributes, ops>>
            ELSE /\ ops' = Append(ops, "get_events_attributes")
                 /\ \E o \in {"ok", "invalid_events", "invalid_attributes", "panic"} :
                     /\ LET s == SlotsAfter(o, instance, events, attributes)
                        IN /\ events' = s.events
                           /\ attributes' = s.attributes
                     /\ IF o = "ok"
                        THEN /\ pc' = "gas"
                             /\ UNCHANGED <<r, instance>>
                        ELSE IF o = "panic"
                        THEN Panic
                        ELSE Fail(Error(o, "to_vec"))
       ELSE /\ pc' = "gas"
            /\ UNCHANGED <<r, instance, events, attributes, ops>>
    /\ UNCHANGED <<req, gas_used, error_msg, arg_ptrs, arg_i,
                   call_params, results, result_datas, call_result, ret>>
    /\ UNCHANGED <<viVars, cache>>

\* *gas_used = instance.create_gas_report().used_internally; Ok(call_result)
report_gas ==
    /\ pc = "gas"
    /\ ops' = Append(ops, "create_gas_report")
    /\ gas_used' = Written(used_internally(instance))
    /\ r' = Ok(call_result)
    /\ pc' = "boundary"
    /\ instance' = [instance EXCEPT !.held = FALSE]
    /\ UNCHANGED <<req, events, attributes, error_msg, arg_ptrs, arg_i,
                   call_params, results, result_datas, call_result, ret>>
    /\ UNCHANGED <<viVars, cache>>

\* handle_c_error_default(r, error_msg): the value of an Ok; for an Err the
\* error goes to the error_msg slot and the default value is returned.
handle_c_error_default(res, slot_given, slot) ==
    IF res.ok
    THEN [data |-> res.val, error_msg |-> slot]
    ELSE [data |-> None, error_msg |-> IF slot_given THEN Written(res.err) ELSE slot]

\* The return with an empty vector, not the encoding of none, after an error.
return_payload_EmptyOnError ==
    /\ pc = "boundary"
    /\ LET h == handle_c_error_default(r, req.error_msg, error_msg)
       IN /\ error_msg' = h.error_msg
          /\ ret' = IF r.ok THEN Written(to_vec(h.data)) ELSE Written([raw |-> <<>>])
    /\ pc' = "returned"
    /\ UNCHANGED <<req, instance, gas_used, events, attributes, arg_ptrs, arg_i,
                   call_params, results, result_datas, call_result, r, ops>>
    /\ UNCHANGED <<viVars, cache>>

\* let option_data = handle_c_error_default(r, error_msg); ... UnmanagedVector::new(Some(data))
return_payload ==
    /\ pc = "boundary"
    /\ LET h == handle_c_error_default(r, req.error_msg, error_msg)
       IN /\ error_msg' = h.error_msg
          /\ ret' = Written(to_vec(h.data))
    /\ pc' = "returned"
    /\ UNCHANGED <<req, instance, gas_used, events, attributes, arg_ptrs, arg_i,
                   call_params, results, result_datas, call_result, r, ops>>
    /\ UNCHANGED <<viVars, cache>>

Next ==
    \/ call_callable_point
    \/ decode_envelope
    \/ get_instance
    \/ install_env_callstack
    \/ set_permission
    \/ write_env
    \/ write_arg
    \/ call_function
    \/ read_results
    \/ collect_events
    \/ report_gas
    \/ return_payload

Spec == Init /\ [][Next]_vars

(***************************************************************************)
(* validate_interface                                                      *)
(***************************************************************************)
VIRequests ==
    [cache : BOOLEAN,
     checksum : {NullView(""), BadView(""), OkView("cs0"), OkView("cs1")},
     expected_interface : {NullView(<<>>), BadView(<<>>)}
                          \cup {OkView(e) : e \in SeqsUpTo(ExportTypes, MaxExpected)},
     error_msg : BOOLEAN]

\* A cache holding one module under checksum "cs1".
InitCacheVI == cache \in [{"cs1"} -> Modules]

\* for f in module.exports().functions() { exported_fns.insert(name, ty); }
RECURSIVE ExportedFns(_, _)
ExportedFns(exports, map) ==
    IF exports = <<>> THEN map
    ELSE LET f == Head(exports)
         IN ExportedFns(Tail(exports),
                [n \in DOMAIN map \cup {f.name} |-> IF n = f.name THEN f.ty ELSE map[n]])

RECURSIVE JoinTypes(_)
JoinTypes(ts) ==
    IF ts = <<>> THEN ""
    ELSE IF Len(ts) = 1 THEN Head(ts)
    ELSE Head(ts) \o ", " \o JoinTypes(Tail(ts))

\* Display of a FunctionType, as format!("{}", expected_fn.ty()) prints it.
DisplayFunctionType(t) == "[" \o JoinTypes(t.params) \o "] -> [" \o JoinTypes(t.results) \o "]"

\* format!("{}: {}", expected_fn.name(), expected_fn.ty())
FormatItem(expected_fn) == expected_fn.name \o ": " \o DisplayFunctionType(expected_fn.ty)

\* The lookup by name alone.
IsImplemented_NameOnly(exported_fns, expected_fn) ==
    expected_fn.name \in DOMAIN exported_fns

\* exported_fns.get(expected_fn.name()).map_or(false, |t| t == expected_fn.ty())
IsImplemented(exported_fns, expected_fn) ==
    /\ expected_fn.name \in DOMAIN exported_fns
    /\ exported_fns[expected_fn.name] = expected_fn.ty

\* The loop with the separator pushed before every item.
RECURSIVE CheckExpected_AlwaysSep(_, _, _, _)
CheckExpected_AlwaysSep(expected, exported_fns, err_msg, is_err) ==
    IF expected = <<>> THEN [err_msg |-> err_msg, is_err |-> is_err]
    ELSE LET expected_fn == Head(expected)
         IN IF ~IsImplemented(exported_fns, expected_fn)
            THEN CheckExpected_AlwaysSep(Tail(expected), exported_fns,
                     err_msg \o ", " \o FormatItem(expected_fn), TRUE)
            ELSE CheckExpected_AlwaysSep(Tail(expected), exported_fns, err_msg, is_err)

\* for expected_fn in expected_interface.iter() { ... }
RECURSIVE CheckExpected(_, _, _, _)
CheckExpected(expected, exported_fns, err_msg, is_err) ==
    IF expected = <<>> THEN [err_msg |-> err_msg, is_err |-> is_err]
    ELSE LET expected_fn == Head(expected)
         IN IF ~IsImplemented(exported_fns, expected_fn)
            THEN CheckExpected(Tail(expected), exported_fns,
                     (IF is_err THEN err_msg \o ", " ELSE err_msg) \o FormatItem(expected_fn),
                     TRUE)
            ELSE CheckExpected(Tail(expected), exported_fns, err_msg, is_err)

EmptyMap == [n \in {} |-> FunctionType(<<>>, <<>>)]

do_validate_interface(c, q) ==
    IF q.checksum.st = "null" THEN Err(Error("unset_arg", "CHECKSUM_ARG"))
    ELSE IF q.checksum.st = "bad" THEN Err(Error("try_into", "checksum"))
    ELSE IF q.expected_interface.st = "null" THEN Err(Error("unset_arg", "expected_interface"))
    ELSE IF q.expected_interface.st = "bad" THEN Err(Error("from_slice", "expected_interface"))
    ELSE IF q.checksum.val \notin DOMAIN c THEN Err(Error("vm_err", "get_module"))
    ELSE LET exported_fns == ExportedFns(c[q.checksum.val], EmptyMap)
             chk == CheckExpected(q.expected_interface.val, exported_fns,
                        "The following functions are not implemented: ", FALSE)
         IN IF chk.is_err THEN Ok(Some(chk.err_msg)) ELSE Ok(None)

\* validate_interface reading the exports off an instance it creates with
\* cache.get_instance instead of resolving the module.
validate_interface_ViaInstance ==
    /\ vpc \in {"idle", "returned"}
    /\ \E q \in (IF vpc = "idle" THEN VIRequests ELSE {vreq}) :
        /\ vreq' = q
        /\ vr' = IF q.cache THEN do_validate_interface(cache, q)
                 ELSE Err(Error("unset_arg", "CACHE_ARG"))
    /\ prev' = IF vpc = "idle" THEN prev ELSE <<[r |-> vr, ret |-> vret, error_msg |-> verror_msg]>>
    /\ vpc' = "boundary"
    /\ vret' = Unwritten
    /\ verror_msg' = Unwritten
    /\ instance' = IF vr'.ok THEN [NoInstance EXCEPT !.created = TRUE] ELSE instance
    /\ UNCHANGED cache
    /\ UNCHANGED <<pc, req, gas_used, events, attributes, error_msg, arg_ptrs, arg_i,
                   call_params, results, result_datas, call_result, r, ret, ops>>

\* Extern entry of validate_interface, up to the value of r. A call made after
\* an earlier one returned repeats that call's arguments.
validate_interface ==
    /\ vpc \in {"idle", "returned"}
    /\ \E q \in (IF vpc = "idle" THEN VIRequests ELSE {vreq}) :
        /\ vreq' = q
        /\ vr' = IF q.cache THEN do_validate_interface(cache, q)
                 ELSE Err(Error("unset_arg", "CACHE_ARG"))
    /\ prev' = IF vpc = "idle" THEN prev ELSE <<[r |-> vr, ret |-> vret, error_msg |-> verror_msg]>>
    /\ vpc' = "boundary"
    /\ vret' = Unwritten
    /\ verror_msg' = Unwritten
    /\ UNCHANGED cache
    /\ UNCHANGED callVars

\* let option_data = handle_c_error_default(r, error_msg); ... UnmanagedVector::new(Some(data))
validate_return ==
    /\ vpc = "boundary"
    /\ LET h == handle_c_error_default(vr, vreq.error_msg, verror_msg)
       IN /\ verror_msg' = h.error_msg
          /\ vret' = Written(to_vec(h.data))
    /\ vpc' = "returned"
    /\ UNCHANGED <<vreq, vr, prev, cache>>
    /\ UNCHANGED callVars

InitValidate ==
    /\ InitCall
    /\ InitVI
    /\ InitCacheVI

NextVI ==
    \/ validate_interface
    \/ validate_return

SpecVI == InitValidate /\ [][NextVI]_vars

\* validate_interface with a panic inside do_validate_interface: catch_unwind
\* yields Err(Error::panic()).
validate_interface_fault ==
    /\ vpc = "idle"
    /\ \E q \in {v \in VIRequests : v.cache} :
        vreq' = q
    /\ vr' = Err(Error("panic", ""))
    /\ vpc' = "boundary"
    /\ UNCHANGED <<vret, verror_msg, prev, cache>>
    /\ UNCHANGED callVars

\* Both extern entry points, native faults included. The cache is borrowed
\* mutably (to_cache), so one call runs at a time.
NextEntryPoints ==
    \/ vpc = "idle" /\ call_callable_point
    \/ vpc = "idle" /\ decode_envelope
    \/ vpc = "idle" /\ get_instance
    \/ vpc = "idle" /\ install_env_callstack
    \/ vpc = "idle" /\ set_permission
    \/ vpc = "idle" /\ write_env
    \/ vpc = "idle" /\ write_arg
    \/ vpc = "idle" /\ call_function
    \/ vpc = "idle" /\ read_results
    \/ vpc = "idle" /\ collect_events
    \/ vpc = "idle" /\ report_gas
    \/ vpc = "idle" /\ return_payload
    \/ pc = "idle" /\ validate_interface
    \/ pc = "idle" /\ validate_return
    \/ pc = "idle" /\ validate_interface_fault

SpecEntryPoints == Init /\ [][NextEntryPoints]_vars

(***************************************************************************)
(* Properties of call_callable_point                                       *)
(***************************************************************************)
Did(op) == \E i \in 1..Len(ops) : ops[i] = op

Returned == pc = "returned"

Panicked == ~r.ok /\ r.err.ctor = "panic"

ReadFailed == ~r.ok /\ r.err = Error("vm_err", "read_region_vals_from_env")

\* The regions the returned values point to.
ReturnedRegions == [k \in 1..Len(results) |-> instance.memory[results[k]]]

\* C1: once get_instance succeeded, every exit path other than a panic leaves
\* the instance's cumulative internal gas in the gas_used slot.
C1_GasOnEveryExit ==
    (Returned /\ instance.created /\ ~Panicked)
        => gas_used = Written(used_internally(instance))

\* C2: once the export has been invoked, the instance's cumulative internal gas
\* is in the gas_used slot when the call returns, whatever the invocation and
\* the later steps came to.
C2_GasAfterInvocation ==
    (Returned /\ Did("call_function") /\ ~Panicked)
        => (IsWritten(gas_used) /\ gas_used.val = used_internally(instance))

\* C3 as stated: a request without a gas_used slot fails with EmptyArgument for
\* gas_used, whatever the other inputs are, and no instance is created.
C3_EmptyArgumentAlways ==
    (Returned /\ ~req.gas_used)
        => /\ r = Err(Error("empty_arg", "GAS_USED_ARG"))
           /\ ~instance.created

\* The fields checked before the gas_used slot are present and decode.
EarlierFieldsOk == req.cache /\ req.name.st = "ok" /\ req.args.st = "ok"

\* C3 amended: a request without a gas_used slot never gets an instance and
\* never runs guest code, whatever the other inputs are, and it ends in an
\* error; the error is EmptyArgument for gas_used whenever the cache handle is
\* non-null and name and args are present and decode.
C3_MissingGasSlot ==
    ~req.gas_used
        => /\ ~instance.created
           /\ ops = <<>>
           /\ pc \notin {"get_instance", "install", "permission", "write_env",
                         "write_args", "call", "read_results", "events", "gas"}
           /\ Returned => ~r.ok
           /\ (Returned /\ EarlierFieldsOk) => r = Err(Error("empty_arg", "GAS_USED_ARG"))

C3_Witness ==
    /\ Returned
    /\ ~req.gas_used
    /\ EarlierFieldsOk
    /\ req.checksum.st = "null"
    /\ r = Err(Error("empty_arg", "GAS_USED_ARG"))

\* C4: the export is invoked with n+1 parameters for n arguments: the region
\* of the raw env payload first, then the regions of the arguments in their
\* original order, the regions having been written in that order.
C4_EnvThenArgs ==
    Did("call_function")
        => /\ Len(call_params) = Len(req.args.val) + 1
           /\ instance.memory[call_params[1]] = req.env.val
           /\ \A i \in 1..Len(req.args.val) :
                instance.memory[call_params[i + 1]] = req.args.val[i]
           /\ \A i, j \in 1..Len(call_params) : i < j => call_params[i] < call_params[j]

C4_Witness ==
    /\ Did("call_function")
    /\ Len(req.args.val) = 2
    /\ req.args.val[1] # req.args.val[2]
    /\ Len(call_params) = 3

\* C5: a successful call that is not read-only leaves the serialized events
\* and attributes of the instance in both slots; a read-only call never writes
\* either slot.
C5_EventsAttributes ==
    /\ (Returned /\ r.ok /\ ~req.is_readonly)
          => /\ events = Written(to_vec(instance.events))
             /\ attributes = Written(to_vec(instance.attributes))
    /\ req.is_readonly => (events = Unwritten /\ attributes = Unwritten)

C5_Witness ==
    /\ Returned
    /\ r.ok
    /\ ~req.is_readonly
    /\ instance.events = <<"ev1">>
    /\ events = Written(to_vec(<<"ev1">>))
    /\ attributes = Written(to_vec(<<"at1">>))

\* C6: once the returned values were read back, their number decides the
\* result: none for 0, Some of the one region's bytes for 1, and the
\* DynamicLinkError "unexpected more than 1 returning values" for 2 or more.
C6_ResultCount ==
    (Did("read_region_vals_from_env") /\ ~ReadFailed /\ ~Panicked)
        => /\ result_datas = ReturnedRegions
           /\ Len(results) = 0
                => /\ call_result = None
                   /\ (Returned /\ r.ok) => ret = Written(to_vec(None))
           /\ Len(results) = 1
                => /\ call_result = Some(Binary(instance.memory[results[1]]))
                   /\ (Returned /\ r.ok) => ret = Written(to_vec(call_result))
           /\ Len(results) >= 2
                => /\ pc \in {"boundary", "returned"}
                   /\ r = Err(Error("dynamic_link_err",
                                    "unexpected more than 1 returning values"))

C6_Witness ==
    /\ Returned
    /\ Len(results) = 2
    /\ result_datas = ReturnedRegions
    /\ r = Err(Error("dynamic_link_err", "unexpected more than 1 returning values"))

\* C7: the read-back is refused exactly when the combined length of all
\* returned regions exceeds 64 MiB: 67108864 bytes in total are accepted,
\* 67108865 are refused, also when every single region is within 64 MiB.
C7_OutputBudget ==
    (Did("read_region_vals_from_env") /\ ~Panicked)
        => (ReadFailed <=> TotalLength(ReturnedRegions) > 67108864)

C7_Witness ==
    /\ Did("read_region_vals_from_env")
    /\ ReadFailed
    /\ Len(results) = 2
    /\ \A k \in 1..Len(results) : ReturnedRegions[k].n <= 67108864

(***************************************************************************)
(* Properties of validate_interface                                        *)
(***************************************************************************)
\* The call got as far as comparing the expected interface with a module.
Compared == vpc \in {"boundary", "returned"} /\ vr.ok

ExpectedInterface == vreq.expected_interface.val

ModuleExports == cache[vreq.checksum.val]

\* The module exports a function of this name and of a structurally equal type.
Satisfied(e) ==
    \E j \in 1..Len(ModuleExports) :
        /\ ModuleExports[j].name = e.name
        /\ Len(ModuleExports[j].ty.params) = Len(e.ty.params)
        /\ \A k \in 1..Len(e.ty.params) : ModuleExports[j].ty.params[k] = e.ty.params[k]
        /\ Len(ModuleExports[j].ty.results) = Len(e.ty.results)
        /\ \A k \in 1..Len(e.ty.results) : ModuleExports[j].ty.results[k] = e.ty.results[k]

NameExported(e) == \E j \in 1..Len(ModuleExports) : ModuleExports[j].name = e.name

\* C8: the result is none exactly when every expected entry has an export of
\* the same name and a structurally equal function type; an empty expected
\* list gives none, a name exported under another signature gives a message.
C8_NoneIffAllSatisfied ==
    Compared
        => /\ (vr.val = None) <=> (\A i \in 1..Len(ExpectedInterface) : Satisfied(ExpectedInterface[i]))
           /\ ExpectedInterface = <<>> => vr.val = None
           /\ (\E i \in 1..Len(ExpectedInterface) :
                    NameExported(ExpectedInterface[i]) /\ ~Satisfied(ExpectedInterface[i]))
                => vr.val.some

C8_Witness ==
    /\ vpc = "returned"
    /\ vr.ok
    /\ vr.val.some
    /\ Len(ExpectedInterface) = 1
    /\ NameExported(ExpectedInterface[1])

RECURSIVE JoinItems(_)
JoinItems(items) ==
    IF items = <<>> THEN ""
    ELSE IF Len(items) = 1 THEN items[1]
    ELSE JoinItems(SubSeq(items, 1, Len(items) - 1)) \o ", " \o items[Len(items)]

\* The expected entries that are missing or mismatched, in the given order.
Unsatisfied ==
    LET Bad(e) == ~Satisfied(e)
    IN SelectSeq(ExpectedInterface, Bad)

\* C9: a mismatch message is the fixed prefix followed by one "<name>: <type>"
\* item for each expected entry that is missing or mismatched and for no
\* other, in the order of the expected interface, separated by ", ", the type
\* being the expected one.
C9_MessageFormat ==
    (Compared /\ vr.val.some)
        => vr.val.val[1] =
              "The following functions are not implemented: "
              \o JoinItems([i \in 1..Len(Unsatisfied) |->
                    Unsatisfied[i].name \o ": " \o DisplayFunctionType(Unsatisfied[i].ty)])

C9_Witness ==
    /\ vpc = "returned"
    /\ vr.ok
    /\ vr.val.some
    /\ Len(ExpectedInterface) = 2
    /\ Len(Unsatisfied) = 2
    /\ NameExported(ExpectedInterface[1])
    /\ ~NameExported(ExpectedInterface[2])

C11_NoPartialResults ==
    ~r.ok
        => /\ events = Unwritten
           /\ attributes = Unwritten
           /\ Returned => ret = Written(to_vec(None))

C11_Witness ==
    /\ Returned
    /\ r = Err(Error("invalid_attributes", "to_vec"))
    /\ Did("call_function")
    /\ req.events
    /\ req.attributes
    /\ events = Unwritten
    /\ ret = Written(to_vec(None))

VIPanicked == ~vr.ok /\ vr.err.ctor = "panic"

C13_TwoOutcomes ==
    /\ Returned
          => \/ r.ok /\ ret = Written(to_vec(r.val)) /\ error_msg = Unwritten
             \/ ~r.ok /\ ret = Written(to_vec(None)) /\ error_msg = Written(r.err)
    /\ vpc = "returned"
          => \/ vr.ok /\ vret = Written(to_vec(vr.val)) /\ verror_msg = Unwritten
             \/ ~vr.ok /\ vret = Written(to_vec(None)) /\ verror_msg = Written(vr.err)

\* C13 amended: as stated when the caller gave an error_msg slot; without the
\* slot a failure writes the error nowhere and returns what a successful void
\* call returns.
C13_TwoOutcomesGivenSlot ==
    /\ Returned
          => \/ r.ok /\ ret = Written(to_vec(r.val)) /\ error_msg = Unwritten
             \/ /\ ~r.ok
                /\ ret = Written(to_vec(None))
                /\ error_msg = IF req.error_msg THEN Written(r.err) ELSE Unwritten
    /\ vpc = "returned"
          => \/ vr.ok /\ vret = Written(to_vec(vr.val)) /\ verror_msg = Unwritten
             \/ /\ ~vr.ok
                /\ vret = Written(to_vec(None))
                /\ verror_msg = IF vreq.error_msg THEN Written(vr.err) ELSE Unwritten

C13_Witness ==
    /\ Returned
    /\ ~r.ok
    /\ req.error_msg
    /\ error_msg = Written(r.err)
    /\ ret = Written(to_vec(None))
    /\ instance.created

(***************************************************************************)
(* Properties of the order of the steps                                    *)
(***************************************************************************)
OrderOfOps ==
    <<"set_serialized_env", "set_dynamic_callstack", "set_callee_permission",
      "write_value_to_env", "call_function", "read_region_vals_from_env",
      "get_events_attributes", "create_gas_report">>

Rank(op) == CHOOSE i \in 1..Len(OrderOfOps) : OrderOfOps[i] = op

Count(op) == Cardinality({i \in 1..Len(ops) : ops[i] = op})

\* C14: the operations on the instance occur in the order env install,
\* call-stack install, permission set, env region write, argument region
\* writes, invoke, result read, event/attribute extraction, gas read; no
\* region is written and nothing is invoked before the permission is set, and
\* the permission guard runs after env and call stack were installed.
C14_FixedOrder ==
    /\ \A i, j \in 1..Len(ops) :
          i < j => \/ Rank(ops[i]) < Rank(ops[j])
                   \/ ops[i] = "write_value_to_env" /\ ops[j] = "write_value_to_env"
    /\ Did("set_callee_permission")
          => Did("set_serialized_env") /\ Did("set_dynamic_callstack")
    /\ Did("write_value_to_env")
          => /\ Did("set_callee_permission")
             /\ instance.readonly = req.is_readonly
             /\ instance.env = req.env.val
             /\ instance.callstack = req.callstack.val
    /\ Len(instance.memory) >= 1 => instance.memory[1] = req.env.val
    /\ Did("call_function")
          => /\ Did("set_callee_permission")
             /\ Count("write_value_to_env") = Len(req.args.val) + 1
    /\ Did("read_region_vals_from_env") => Did("call_function")
    /\ Did("get_events_attributes") => Did("read_region_vals_from_env")
    /\ (Did("create_gas_report") /\ r.ok) => Did("read_region_vals_from_env")

C14_Witness ==
    /\ Returned
    /\ r.ok
    /\ ops = <<"set_serialized_env", "set_dynamic_callstack", "set_callee_permission",
               "write_value_to_env", "write_value_to_env", "write_value_to_env",
               "call_function", "read_region_vals_from_env",
               "get_events_attributes", "create_gas_report">>

PermissionRejected == ~r.ok /\ r.err = Error("vm_err", "set_callee_permission")

\* C15: when set_callee_permission rejects the call, the gas_used slot holds
\* the instance's cumulative internal gas by the time the error is returned,
\* no region was written, the export was not invoked and the events and
\* attributes slots are unwritten.
C15_PermissionFailure ==
    PermissionRejected
        => /\ IsWritten(gas_used)
           /\ gas_used.val = instance.gas
           /\ instance.memory = <<>>
           /\ arg_ptrs = <<>>
           /\ ~Did("write_value_to_env")
           /\ ~Did("call_function")
           /\ events = Unwritten
           /\ attributes = Unwritten

C15_Witness ==
    /\ Returned
    /\ PermissionRejected
    /\ instance.gas = 1
    /\ gas_used = Written(1)

\* C16: an error ends the call: once a step has failed, the only step left is
\* the return, which leaves the error, the instance, the slots and the list
\* of operations as they are; no operation is repeated; after a failed
\* call-stack installation the permission guard and the export never run.
C16_ErrorsTerminal ==
    /\ [](/\ \A k \in 1..Len(OrderOfOps) :
                Count(OrderOfOps[k]) <= IF OrderOfOps[k] = "write_value_to_env"
                                        THEN Len(req.args.val) + 1 ELSE 1
          /\ (~r.ok /\ r.err = Error("vm_err", "set_dynamic_callstack"))
                => /\ ~Did("set_callee_permission")
                   /\ ~Did("call_function")
                   /\ ops = <<"set_serialized_env", "set_dynamic_callstack">>)
    /\ [][~r.ok => /\ pc = "boundary"
                   /\ pc' = "returned"
                   /\ r' = r
                   /\ ops' = ops
                   /\ instance' = instance
                   /\ gas_used' = gas_used
                   /\ events' = events
                   /\ attributes' = attributes
                   /\ arg_ptrs' = arg_ptrs
                   /\ call_params' = call_params]_vars

C16_Witness ==
    /\ Returned
    /\ r = Err(Error("vm_err", "set_dynamic_callstack"))
    /\ ops = <<"set_serialized_env", "set_dynamic_callstack">>
    /\ req.error_msg
    /\ error_msg = Written(Error("vm_err", "set_dynamic_callstack"))

\* C17: a call obtains at most one instance, invokes the export at most once
\* on it, and no longer holds it once do_call_callable_point is left, whether
\* by success, by an error or by a caught panic.
C17_InstanceReleased ==
    /\ instance.made <= 1
    /\ Count("call_function") <= 1
    /\ instance.held => (instance.created /\ instance.made = 1)
    /\ pc \in {"idle", "decode", "get_instance", "boundary", "returned"} => ~instance.held

C17_Witness ==
    /\ Returned
    /\ Panicked
    /\ instance.made = 1
    /\ Count("call_function") = 1
    /\ ~instance.held

\* The envelope checks, in the order name, args, gas_used, checksum, callstack, env.
FieldChecks ==
    <<[fails |-> req.name.st # "ok",
       err |-> Error(IF req.name.st = "null" THEN "unset_arg" ELSE "serde_err", "name")],
      [fails |-> req.args.st # "ok",
       err |-> Error(IF req.args.st = "null" THEN "unset_arg" ELSE "serde_err", "args")],
      [fails |-> ~req.gas_used,
       err |-> Error("empty_arg", "GAS_USED_ARG")],
      [fails |-> req.checksum.st # "ok",
       err |-> IF req.checksum.st = "null" THEN Error("unset_arg", "CHECKSUM_ARG")
               ELSE Error("try_into", "checksum")],
      [fails |-> req.callstack.st # "ok",
       err |-> Error(IF req.callstack.st = "null" THEN "unset_arg" ELSE "serde_err", "callstack")],
      [fails |-> req.env.st # "ok",
       err |-> Error("unset_arg", "env")]>>

Failing == {k \in 1..Len(FieldChecks) : FieldChecks[k].fails}

FirstFailing == CHOOSE k \in Failing : \A l \in Failing : k <= l

\* C18: get_instance is reached only with a non-null cache handle and with
\* name, args, gas_used, checksum, callstack and env all present and decoded;
\* otherwise the call ends with the error of the first failing check in that
\* order, a null cache handle coming before all of them, and no instance.
C18_EnvelopeBeforeInstance ==
    /\ (pc # "idle" /\ ~req.cache)
          => /\ pc \in {"boundary", "returned"}
             /\ r = Err(Error("unset_arg", "CACHE_ARG"))
             /\ ~instance.created
             /\ ops = <<>>
    /\ (pc \notin {"idle", "decode"} /\ req.cache /\ Failing # {})
          => /\ pc \in {"boundary", "returned"}
             /\ r = Err(FieldChecks[FirstFailing].err)
             /\ ~instance.created
             /\ ops = <<>>
    /\ (pc = "get_instance" \/ instance.created \/ ops # <<>>)
          => (req.cache /\ Failing = {})

C18_Witness ==
    /\ Returned
    /\ req.cache
    /\ Failing = {4, 5, 6}
    /\ req.checksum.st = "bad"
    /\ r = Err(Error("try_into", "checksum"))

\* C19: the events and attributes slots are written together or not at all;
\* a failed serialization of the attributes leaves the events slot unwritten,
\* and so does an absent attributes slot when the events slot was given.
C19_EventsAttributesPair ==
    /\ IsWritten(events) <=> IsWritten(attributes)
    /\ (~r.ok /\ r.err.ctor \in {"invalid_events", "invalid_attributes"})
          => (events = Unwritten /\ attributes = Unwritten)
    /\ (~r.ok /\ r.err = Error("empty_arg", "attributes"))
          => (req.events /\ events = Unwritten /\ attributes = Unwritten)

C19_Witness ==
    /\ Returned
    /\ r = Err(Error("empty_arg", "attributes"))
    /\ req.events
    /\ events = Unwritten
    /\ instance.events = <<"ev1">>

SlotMissing ==
    ~r.ok /\ r.err \in {Error("empty_arg", "events"), Error("empty_arg", "attributes")}

\* C20: the events and attributes slots of a call that is not read-only are
\* looked at only after the export was invoked and its result read back: an
\* EmptyArgument for them comes after the guest ran, and a failed invocation
\* is reported as the DynamicLinkError whether or not the slots were given.
C20_SlotsCheckedAfterCall ==
    /\ SlotMissing
          => /\ ~req.is_readonly
             /\ ~req.events \/ ~req.attributes
             /\ Count("call_function") = 1
             /\ ops[Len(ops)] = "read_region_vals_from_env"
             /\ result_datas = ReturnedRegions
             /\ Len(result_datas) <= 1
    /\ (pc \in {"boundary", "returned"} /\ ops # <<>>
          /\ ops[Len(ops)] = "call_function" /\ ~Panicked)
          => r = Err(Error("dynamic_link_err", "Error during calling callable point"))

C20_Witness ==
    /\ Returned
    /\ r = Err(Error("empty_arg", "events"))
    /\ ~req.events
    /\ Did("call_function")
    /\ instance.gas >= 2

====
